---------------------------- MODULE Spec2Model ----------------------------
(***************************************************************************)
(* A model of the PyCheckout pricing engine (src/PyCheckout/checkout.py):  *)
(* products, combo-deal price modifiers, the pricing table, basket         *)
(* normalisation and the total-cost computation, and of the interactive     *)
(* loop of the terminal shell (src/PyCheckout/terminal_checkout.py).       *)
(*                                                                         *)
(* Python values are records tagged by their type in field t.  Every type  *)
(* uses its own payload field, so values of different types never share a  *)
(* field.  Floats are exact dyadic numbers held in quarter units (q = 4x); *)
(* every float the model draws is a multiple of 1/2, so one product of two *)
(* floats is still exact.  A str holds a sequence of text units (s), or,   *)
(* when it is JSON text, the sequence of its lexical tokens (text).        *)
(***************************************************************************)
EXTENDS Integers, Sequences, FiniteSets, TLC

VARIABLES
    product_pricings,   \* PricingInfo.product_pricings: product id -> ProductPricing
    modifier,           \* a stand-alone ComboDealPriceModifier (or None before one exists)
    last,               \* the most recent operation on that modifier and its outcome
    basket,             \* the basket object the caller holds and passes in
    results,            \* the pricing calls made so far, oldest first: argument, prices, outcome
    updates,            \* number of price updates applied so far
    shell               \* the terminal shell: its position, the line it is working on
                        \* (None when none), what it printed since that line was read

vars == <<product_pricings, modifier, last, basket, results, updates, shell>>

----------------------------------------------------------------------------
(* Python values *)

IntV(n) == [t |-> "int", i |-> n]
BoolV(b) == [t |-> "bool", b |-> b]
FloatV(q) == [t |-> "float", q |-> q]
StrV(s) == [t |-> "str", s |-> s]
TextV(toks) == [t |-> "str", text |-> toks]
NoneV == [t |-> "none"]
ListV(xs) == [t |-> "list", items |-> xs]
DictV(f) == [t |-> "dict", map |-> f]

\* a raised exception: its type, its message, the type of its __cause__ ("none"
\* when it has none) and the object its message formats (None when none)
Raise(type, msg, cause, arg) ==
    [t |-> "raise", type |-> type, msg |-> msg, cause |-> cause, arg |-> arg]

IsRaise(x) == x.t = "raise"

\* isinstance(x, int): bool is a subclass of int
IsInstanceInt(x) == x.t \in {"int", "bool"}
IsInstanceStr(x) == x.t = "str"
IsNumber(x) == x.t \in {"int", "bool", "float"}

\* the numeric value of a number, in quarter units
Quarters(x) ==
    CASE x.t = "int" -> 4 * x.i
      [] x.t = "bool" -> IF x.b THEN 4 ELSE 0
      [] x.t = "float" -> x.q

\* the int value of an int or bool
IntOf(x) == IF x.t = "bool" THEN (IF x.b THEN 1 ELSE 0) ELSE x.i

\* float(x): the text units that read as a float are the digit strings
Digits == {"0", "1", "2", "3", "4", "5", "6", "7", "8", "9"}
IsFloatLiteral(x) ==
    /\ "s" \in DOMAIN x
    /\ x.s # <<>>
    /\ \A k \in 1..Len(x.s) : x.s[k] \in Digits

\* float(x) succeeds ("ok") or raises ValueError or TypeError
float_check(x) ==
    CASE IsNumber(x) -> "ok"
      [] x.t = "str" -> IF IsFloatLiteral(x) THEN "ok" ELSE "ValueError"
      [] OTHER -> "TypeError"

TypeErr(op) == Raise("TypeError", op, "none", NoneV)
ZeroDiv(op) == Raise("ZeroDivisionError", op, "none", NoneV)

RECURSIVE Repeat(_, _)
Repeat(s, n) == IF n <= 0 THEN <<>> ELSE s \o Repeat(s, n - 1)

\* a * b
PyMul(a, b) ==
    CASE IsInstanceInt(a) /\ IsInstanceInt(b) -> IntV(IntOf(a) * IntOf(b))
      [] IsNumber(a) /\ IsNumber(b) -> FloatV((Quarters(a) * Quarters(b)) \div 4)
      [] IsInstanceInt(a) /\ b.t = "str" /\ "s" \in DOMAIN b -> StrV(Repeat(b.s, IntOf(a)))
      [] IsInstanceInt(b) /\ a.t = "str" /\ "s" \in DOMAIN a -> StrV(Repeat(a.s, IntOf(b)))
      [] OTHER -> TypeErr("*")

\* a + b
PyAdd(a, b) ==
    CASE IsInstanceInt(a) /\ IsInstanceInt(b) -> IntV(IntOf(a) + IntOf(b))
      [] IsNumber(a) /\ IsNumber(b) -> FloatV(Quarters(a) + Quarters(b))
      [] a.t = "str" /\ b.t = "str" /\ "s" \in DOMAIN a /\ "s" \in DOMAIN b -> StrV(a.s \o b.s)
      [] OTHER -> TypeErr("+")

\* floor of n / d for d # 0, and the remainder with the sign of d
FloorDiv(n, d) == IF d > 0 THEN n \div d ELSE (-n) \div (-d)
FloorMod(n, d) == n - d * FloorDiv(n, d)

\* a // b
PyFloorDiv(a, b) ==
    CASE IsInstanceInt(a) /\ IsInstanceInt(b) ->
            IF IntOf(b) = 0 THEN ZeroDiv("//") ELSE IntV(FloorDiv(IntOf(a), IntOf(b)))
      [] IsNumber(a) /\ IsNumber(b) ->
            IF Quarters(b) = 0 THEN ZeroDiv("//")
            ELSE FloatV(4 * FloorDiv(Quarters(a), Quarters(b)))
      [] OTHER -> TypeErr("//")

\* a % b
PyMod(a, b) ==
    CASE IsInstanceInt(a) /\ IsInstanceInt(b) ->
            IF IntOf(b) = 0 THEN ZeroDiv("%") ELSE IntV(FloorMod(IntOf(a), IntOf(b)))
      [] IsNumber(a) /\ IsNumber(b) ->
            IF Quarters(b) = 0 THEN ZeroDiv("%")
            ELSE FloatV(FloorMod(Quarters(a), Quarters(b)))
      [] OTHER -> TypeErr("%")

\* a >= 0, a > 0: a bool, or TypeError for a value that does not compare with int
PyGe0(a) == IF IsNumber(a) THEN BoolV(Quarters(a) >= 0) ELSE TypeErr(">=")
PyGt0(a) == IF IsNumber(a) THEN BoolV(Quarters(a) > 0) ELSE TypeErr(">")

----------------------------------------------------------------------------
(* ComboDealPriceModifier *)

Modifier(combo_price, per_amount) ==
    [t |-> "ComboDealPriceModifier", combo_price |-> combo_price, per_amount |-> per_amount]

\* ComboDealPriceModifier(combo_price, per_amount): the new object, or the exception
ComboDealPriceModifier(combo_price, per_amount) ==
    LET f == float_check(combo_price) IN
    IF f = "ValueError"
    THEN Raise("ValueError", "combo_price must be castable to float", "ValueError", NoneV)
    ELSE IF f = "TypeError" THEN TypeErr("float")
    ELSE IF ~IsInstanceInt(per_amount) \/ ~PyGt0(per_amount).b
    THEN Raise("ValueError", "per_amount must be an int > 0", "AssertionError", NoneV)
    ELSE Modifier(combo_price, per_amount)

\* modified_price with the remainder taken by // in place of %
modified_price_quotient(self, unit_price, quantity) ==
    LET f == float_check(unit_price) IN
    IF f = "ValueError"
    THEN Raise("ValueError", "unit_price must be castable to float", "ValueError", NoneV)
    ELSE IF f = "TypeError" THEN TypeErr("float")
    ELSE IF ~IsInstanceInt(quantity) \/ ~PyGe0(quantity).b
    THEN Raise("ValueError", "Quantity must be an int >= 0", "AssertionError", NoneV)
    ELSE
    LET sets == PyFloorDiv(quantity, self.per_amount) IN
    IF IsRaise(sets) THEN sets ELSE
    LET deal_price == PyMul(sets, self.combo_price) IN
    IF IsRaise(deal_price) THEN deal_price ELSE
    LET remaining_price == PyMul(sets, unit_price) IN
    IF IsRaise(remaining_price) THEN remaining_price ELSE
    PyAdd(deal_price, remaining_price)

\* self.modified_price(unit_price, quantity): the price, or the exception
modified_price(self, unit_price, quantity) ==
    LET f == float_check(unit_price) IN
    IF f = "ValueError"
    THEN Raise("ValueError", "unit_price must be castable to float", "ValueError", NoneV)
    ELSE IF f = "TypeError" THEN TypeErr("float")
    ELSE IF ~IsInstanceInt(quantity) \/ ~PyGe0(quantity).b
    THEN Raise("ValueError", "Quantity must be an int >= 0", "AssertionError", NoneV)
    ELSE
    LET sets == PyFloorDiv(quantity, self.per_amount) IN
    IF IsRaise(sets) THEN sets ELSE
    LET deal_price == PyMul(sets, self.combo_price) IN
    IF IsRaise(deal_price) THEN deal_price ELSE
    LET rest == PyMod(quantity, self.per_amount) IN
    IF IsRaise(rest) THEN rest ELSE
    LET remaining_price == PyMul(rest, unit_price) IN
    IF IsRaise(remaining_price) THEN remaining_price ELSE
    PyAdd(deal_price, remaining_price)

----------------------------------------------------------------------------
(* Product, ProductPricing, BasketItem, PricingInfo *)

Product(name) == [t |-> "Product", name |-> name]

\* Product.id
ProductId(product) == product.name

ProductPricing(product, unit_price, price_modifier) ==
    [t |-> "ProductPricing", product |-> product, unit_price |-> unit_price,
     price_modifier |-> price_modifier]

\* BasketItem(code, quantity): the new object, or the exception of __post_init__
BasketItem(code, quantity) ==
    LET ok == PyGe0(quantity) IN
    IF IsRaise(ok) THEN ok
    ELSE IF ~ok.b THEN Raise("ValueError", "Invalid Basket Item", "AssertionError", code)
    ELSE [t |-> "BasketItem", code |-> code, quantity |-> quantity]

\* PricingInfo(product_pricings) for a list of ProductPricing: the map keyed by
\* product id, a later entry replacing an earlier one with the same id
RECURSIVE PricingInfo(_)
PricingInfo(pricings) ==
    IF pricings = <<>> THEN <<>>
    ELSE LET n == Len(pricings)
             first == PricingInfo(SubSeq(pricings, 1, n - 1))
             id == ProductId(pricings[n].product)
         IN [k \in DOMAIN first \cup {id} |-> IF k = id THEN pricings[n] ELSE first[k]]

\* the price list of the terminal application and of the tests
DefaultPricings ==
    << ProductPricing(Product(StrV(<<"A">>)), IntV(50),
                      ComboDealPriceModifier(IntV(140), IntV(3))),
       ProductPricing(Product(StrV(<<"B">>)), IntV(35),
                      ComboDealPriceModifier(IntV(60), IntV(2))),
       ProductPricing(Product(StrV(<<"C">>)), IntV(25), NoneV),
       ProductPricing(Product(StrV(<<"D">>)), IntV(12), NoneV) >>

\* PricingInfo.dict_to_basket_item(item)
dict_to_basket_item(item) ==
    IF \/ ~({"code", "quantity"} \subseteq DOMAIN item.map)
       \/ ~IsInstanceStr(item.map["code"])
       \/ ~IsInstanceInt(item.map["quantity"])
    THEN Raise("ValueError", "Invalid format for basket item", "AssertionError", item)
    ELSE BasketItem(item.map["code"], item.map["quantity"])

\* calculate_item_cost never applying the price modifier
calculate_item_cost_plain(pricings, item) ==
    IF item.code \notin DOMAIN pricings
    THEN Raise("ValueError", "Product does not have pricing data in PricingInfo",
               "KeyError", item.code)
    ELSE PyMul(item.quantity, pricings[item.code].unit_price)

\* calculate_item_cost pricing a product it does not know at nothing
calculate_item_cost_lenient(pricings, item) ==
    IF item.code \notin DOMAIN pricings THEN IntV(0)
    ELSE LET pricing == pricings[item.code] IN
         IF pricing.price_modifier # NoneV
         THEN modified_price(pricing.price_modifier, pricing.unit_price, item.quantity)
         ELSE PyMul(item.quantity, pricing.unit_price)

\* PricingInfo.calculate_item_cost(item) with self.product_pricings = pricings
calculate_item_cost(pricings, item) ==
    IF item.code \notin DOMAIN pricings
    THEN Raise("ValueError", "Product does not have pricing data in PricingInfo",
               "KeyError", item.code)
    ELSE LET pricing == pricings[item.code] IN
         IF pricing.price_modifier # NoneV
         THEN modified_price(pricing.price_modifier, pricing.unit_price, item.quantity)
         ELSE PyMul(item.quantity, pricing.unit_price)

----------------------------------------------------------------------------
(* json.loads on the token sequence of a text *)

Tok(k) == [k |-> k]
StringTok(s) == [k |-> "string", s |-> s]
IntTok(n) == [k |-> "int", i |-> n]
RealTok(q) == [k |-> "real", q |-> q]
WordTok(s) == [k |-> "word", s |-> s]

\* a text given by its units (not tokenised) lexes as bare words
Tokens(x) ==
    IF "text" \in DOMAIN x THEN x.text ELSE [k \in 1..Len(x.s) |-> WordTok(x.s[k])]

ParseOk(v, n) == [ok |-> TRUE, v |-> v, n |-> n]
ParseFail == [ok |-> FALSE]

RECURSIVE ParseValue(_, _), ParseArray(_, _, _), ParseObject(_, _, _)
\* the JSON value starting at token p, and the position after it
ParseValue(ts, p) ==
    IF p > Len(ts) THEN ParseFail
    ELSE LET tk == ts[p] IN
         CASE tk.k = "string" -> ParseOk(StrV(<<tk.s>>), p + 1)
           [] tk.k = "int" -> ParseOk(IntV(tk.i), p + 1)
           [] tk.k = "real" -> ParseOk(FloatV(tk.q), p + 1)
           [] tk.k = "true" -> ParseOk(BoolV(TRUE), p + 1)
           [] tk.k = "false" -> ParseOk(BoolV(FALSE), p + 1)
           [] tk.k = "null" -> ParseOk(NoneV, p + 1)
           [] tk.k = "[" ->
                IF p + 1 <= Len(ts) /\ ts[p + 1].k = "]"
                THEN ParseOk(ListV(<<>>), p + 2)
                ELSE ParseArray(ts, p + 1, <<>>)
           [] tk.k = "{" ->
                IF p + 1 <= Len(ts) /\ ts[p + 1].k = "}"
                THEN ParseOk(DictV(<<>>), p + 2)
                ELSE ParseObject(ts, p + 1, <<>>)
           [] OTHER -> ParseFail

\* the rest of an array whose next element starts at p; acc holds the elements read
ParseArray(ts, p, acc) ==
    LET r == ParseValue(ts, p) IN
    IF ~r.ok \/ r.n > Len(ts) THEN ParseFail
    ELSE IF ts[r.n].k = "," THEN ParseArray(ts, r.n + 1, Append(acc, r.v))
    ELSE IF ts[r.n].k = "]" THEN ParseOk(ListV(Append(acc, r.v)), r.n + 1)
    ELSE ParseFail

\* the rest of an object whose next key is at p; a repeated key keeps its last value
ParseObject(ts, p, acc) ==
    IF p + 1 > Len(ts) \/ ts[p].k # "string" \/ ts[p + 1].k # ":" THEN ParseFail
    ELSE LET r == ParseValue(ts, p + 2) IN
         IF ~r.ok \/ r.n > Len(ts) THEN ParseFail
         ELSE LET key == ts[p].s
                  map == [k \in DOMAIN acc \cup {key} |-> IF k = key THEN r.v ELSE acc[k]]
              IN IF ts[r.n].k = "," THEN ParseObject(ts, r.n + 1, map)
                 ELSE IF ts[r.n].k = "}" THEN ParseOk(DictV(map), r.n + 1)
                 ELSE ParseFail

\* json.loads reading every number as a float
json_loads_floats(text) ==
    LET given == Tokens(text)
        ts == [k \in 1..Len(given) |->
                  IF given[k].k = "int" THEN RealTok(4 * given[k].i) ELSE given[k]]
        r == ParseValue(ts, 1)
    IN IF r.ok /\ r.n = Len(ts) + 1 THEN r.v
       ELSE Raise("JSONDecodeError", "json", "none", NoneV)

\* json.loads(text): the value, or JSONDecodeError
json_loads(text) ==
    LET ts == Tokens(text)
        r == ParseValue(ts, 1)
    IN IF r.ok /\ r.n = Len(ts) + 1 THEN r.v
       ELSE Raise("JSONDecodeError", "json", "none", NoneV)

----------------------------------------------------------------------------
(* PricingInfo.calculate_total_cost *)

IsBasketItem(x) == x.t = "BasketItem"
IsDict(x) == x.t = "dict"

\* [dict_to_basket_item(item) for item in items]: the list, or the first exception
RECURSIVE ConvertAll(_)
ConvertAll(items) ==
    IF items = <<>> THEN ListV(<<>>)
    ELSE LET first == dict_to_basket_item(Head(items)) IN
         IF IsRaise(first) THEN first
         ELSE LET rest == ConvertAll(Tail(items)) IN
              IF IsRaise(rest) THEN rest ELSE ListV(<<first>> \o rest.items)

\* the quantities of a list of items added up
RECURSIVE SumQuantities(_)
SumQuantities(items) ==
    IF Len(items) = 1 THEN Head(items).quantity
    ELSE PyAdd(Head(items).quantity, SumQuantities(Tail(items)))

\* the loop over the basket costing all the items of one product code together
RECURSIVE SumCosts_merged(_, _, _)
SumCosts_merged(pricings, items, total_cost) ==
    IF items = <<>> THEN total_cost
    ELSE LET same == SelectSeq(items, LAMBDA x : x.code = Head(items).code)
             rest == SelectSeq(items, LAMBDA x : x.code # Head(items).code)
             cost == calculate_item_cost(pricings,
                                         [Head(items) EXCEPT !.quantity = SumQuantities(same)])
         IN IF IsRaise(cost) THEN cost
            ELSE LET sum == PyAdd(total_cost, cost) IN
                 IF IsRaise(sum) THEN sum ELSE SumCosts_merged(pricings, rest, sum)

\* the loop over the basket: total_cost += calculate_item_cost(item)
RECURSIVE SumCosts(_, _, _)
SumCosts(pricings, items, total_cost) ==
    IF items = <<>> THEN total_cost
    ELSE LET cost == calculate_item_cost(pricings, Head(items)) IN
         IF IsRaise(cost) THEN cost
         ELSE LET sum == PyAdd(total_cost, cost) IN
              IF IsRaise(sum) THEN sum ELSE SumCosts(pricings, Tail(items), sum)

\* the parse error re-raised as it is, not wrapped
LoadBasket_reraise(b) == IF IsInstanceStr(b) THEN json_loads(b) ELSE b

\* the basket after the isinstance(basket, str) step: parsed, or the exception
LoadBasket(b) ==
    IF IsInstanceStr(b)
    THEN LET parsed == json_loads(b) IN
         IF IsRaise(parsed) THEN Raise("ValueError", "Invalid JSON", "JSONDecodeError", NoneV)
         ELSE parsed
    ELSE b

\* the list of BasketItem the basket normalises to, or the exception
NormaliseBasket(b) ==
    IF b.t = "list"
    THEN IF \A k \in 1..Len(b.items) : IsBasketItem(b.items[k]) THEN b
         ELSE IF \A k \in 1..Len(b.items) : IsDict(b.items[k]) THEN ConvertAll(b.items)
         ELSE Raise("ValueError",
                    "Invalid Basket Format, all elements of basket must be either a dict or a BasketItem",
                    "none", NoneV)
    ELSE Raise("ValueError", "Invalid Basket Format, basket must be a list", "none", NoneV)

\* the loop converting and costing one map at a time
RECURSIVE SumCostsOfMaps(_, _, _)
SumCostsOfMaps(pricings, maps, total_cost) ==
    IF maps = <<>> THEN total_cost
    ELSE LET item == dict_to_basket_item(Head(maps)) IN
         IF IsRaise(item) THEN item
         ELSE LET cost == calculate_item_cost(pricings, item) IN
              IF IsRaise(cost) THEN cost
              ELSE LET sum == PyAdd(total_cost, cost) IN
                   IF IsRaise(sum) THEN sum ELSE SumCostsOfMaps(pricings, Tail(maps), sum)

\* calculate_total_cost converting each map only when its turn to be costed comes
calculate_total_cost_interleaved(pricings, b) ==
    LET loaded == LoadBasket(b) IN
    IF IsRaise(loaded) THEN loaded
    ELSE IF loaded.t = "list" /\ loaded.items # <<>>
            /\ \A k \in 1..Len(loaded.items) : IsDict(loaded.items[k])
    THEN SumCostsOfMaps(pricings, loaded.items, IntV(0))
    ELSE LET items == NormaliseBasket(loaded) IN
         IF IsRaise(items) THEN items
         ELSE SumCosts(pricings, items.items, IntV(0))

\* the codes the loop over the basket looks up in product_pricings, in order: it
\* stops at the first item whose costing raises
RECURSIVE LookedUp(_, _)
LookedUp(pricings, items) ==
    IF items = <<>> THEN <<>>
    ELSE IF IsRaise(calculate_item_cost(pricings, Head(items))) THEN <<Head(items).code>>
    ELSE <<Head(items).code>> \o LookedUp(pricings, Tail(items))

\* the product_pricings lookups one calculate_total_cost(basket) call performs
PricingLookups(pricings, b) ==
    LET loaded == LoadBasket(b) IN
    IF IsRaise(loaded) THEN <<>>
    ELSE LET items == NormaliseBasket(loaded) IN
         IF IsRaise(items) THEN <<>> ELSE LookedUp(pricings, items.items)

\* PricingInfo.calculate_total_cost(basket) with self.product_pricings = pricings
calculate_total_cost(pricings, b) ==
    LET loaded == LoadBasket(b) IN
    IF IsRaise(loaded) THEN loaded
    ELSE LET items == NormaliseBasket(loaded) IN
         IF IsRaise(items) THEN items
         ELSE SumCosts(pricings, items.items, IntV(0))

----------------------------------------------------------------------------
(* Bounds and the inputs drawn from them *)

MaxQty == 4         \* largest valid quantity drawn
MaxLen == 2         \* longest enumerated basket
MaxCalls == 2       \* pricing calls recorded in one behaviour
MaxUpdates == 1     \* price updates applied in one behaviour
MaxLine == 2        \* most maps in one line typed at the shell's prompt

A == StrV(<<"A">>)
B == StrV(<<"B">>)
C == StrV(<<"C">>)
D == StrV(<<"D">>)
E == StrV(<<"E">>)

\* a (code, quantity) pair as the caller writes it in a key/value map
Map(code, quantity) ==
    DictV([k \in {"code", "quantity"} |-> IF k = "code" THEN code ELSE quantity])
MapOnly(key, value) == DictV([k \in {key} |-> value])

\* well-formed basket content: text codes with non-negative integer quantities
Contents ==
    ({A} \X (0..MaxQty)) \cup ({C} \X {1, 2}) \cup ({E} \X {1})

\* maps that break the map-to-BasketItem rule
BadMaps ==
    { MapOnly("code", A), MapOnly("quantity", IntV(5)), Map(IntV(5), IntV(5)),
      Map(A, FloatV(22)), Map(A, FloatV(12)), Map(A, IntV(-1)), Map(E, IntV(-1)),
      Map(A, StrV(<<"2">>)), Map(A, NoneV) }
\* maps whose quantity is a boolean
BoolMaps == { Map(A, BoolV(TRUE)), Map(C, BoolV(FALSE)), Map(E, BoolV(TRUE)) }

GoodMaps == { Map(c[1], IntV(c[2])) : c \in Contents }
GoodItems == { BasketItem(c[1], IntV(c[2])) : c \in Contents }
\* BasketItem objects the constructor accepts although they are not (text, integer)
OddItems == { BasketItem(A, FloatV(22)), BasketItem(C, FloatV(6)), BasketItem(IntV(5), IntV(1)),
              BasketItem(A, BoolV(TRUE)) }

SeqsUpTo(S, n) == UNION { [1..k -> S] : k \in 0..n }

\* json.dumps of a value built from the types json.loads yields
KeyOrder == <<"code", "quantity">>
RECURSIVE Encode(_), EncodeAll(_), EncodeKeys(_, _)
Encode(v) ==
    CASE v.t = "int" -> <<IntTok(v.i)>>
      [] v.t = "float" -> <<RealTok(v.q)>>
      [] v.t = "bool" -> <<Tok(IF v.b THEN "true" ELSE "false")>>
      [] v.t = "none" -> <<Tok("null")>>
      [] v.t = "str" -> <<StringTok(v.s[1])>>
      [] v.t = "list" -> <<Tok("[")>> \o EncodeAll(v.items) \o <<Tok("]")>>
      [] v.t = "dict" ->
            <<Tok("{")>>
            \o EncodeKeys(v.map, SelectSeq(KeyOrder, LAMBDA k : k \in DOMAIN v.map))
            \o <<Tok("}")>>
EncodeAll(items) ==
    IF items = <<>> THEN <<>>
    ELSE Encode(Head(items))
         \o (IF Len(items) > 1 THEN <<Tok(",")>> ELSE <<>>) \o EncodeAll(Tail(items))
EncodeKeys(map, keys) ==
    IF keys = <<>> THEN <<>>
    ELSE <<StringTok(Head(keys)), Tok(":")>> \o Encode(map[Head(keys)])
         \o (IF Len(keys) > 1 THEN <<Tok(",")>> ELSE <<>>) \o EncodeKeys(map, Tail(keys))

AsJson(v) == TextV(Encode(v))

\* the basket of the tests: A x3, B x3, C x1, D x2
DefaultContent == << <<A, 3>>, <<B, 3>>, <<C, 1>>, <<D, 2>> >>
AsMaps(content) == ListV([k \in 1..Len(content) |-> Map(content[k][1], IntV(content[k][2]))])
AsItems(content) ==
    ListV([k \in 1..Len(content) |-> BasketItem(content[k][1], IntV(content[k][2]))])

\* texts that are not JSON
NotJson ==
    { TextV(<<WordTok("not"), WordTok("json")>>),
      TextV(<<>>),
      TextV(<<Tok("["), Tok("{"), StringTok("code"), Tok(":"), StringTok("A"), Tok(","),
              StringTok("quantity"), Tok(":"), IntTok(3), Tok("}")>>),
      TextV(<<Tok("["), IntTok(1), Tok(","), Tok("]")>>),
      TextV(<<Tok("["), Tok("]"), Tok("[")>>),
      TextV(<<Tok("{"), IntTok(1), Tok(":"), IntTok(2), Tok("}")>>) }

\* values that are no list, and lists that are neither all BasketItem nor all maps
NonLists == { IntV(5), NoneV, Map(A, IntV(1)), BoolV(TRUE), FloatV(22), BasketItem(A, IntV(1)) }
MixedLists ==
    { ListV(<<IntV(5)>>), ListV(<<Map(A, IntV(1)), IntV(5)>>),
      ListV(<<BasketItem(A, IntV(1)), Map(A, IntV(1))>>),
      ListV(<<Map(A, IntV(-1)), BasketItem(A, IntV(1))>>),
      ListV(<<StrV(<<"A">>)>>), ListV(<<ListV(<<>>)>>), ListV(<<NoneV, Map(E, IntV(1))>>) }

MapLists == { ListV(s) : s \in SeqsUpTo(GoodMaps \cup BadMaps \cup BoolMaps, MaxLen) }
ItemLists == { ListV(s) : s \in SeqsUpTo(GoodItems \cup OddItems, MaxLen) }

HasBasketItem(x) ==
    x.t = "BasketItem" \/ (x.t = "list" /\ \E k \in 1..Len(x.items) : x.items[k].t = "BasketItem")
JsonOf(S) == { AsJson(x) : x \in S }

\* the same values written as JSON text (a BasketItem has no JSON form)
JsonMapLists == JsonOf(MapLists)
JsonNonLists == JsonOf({ x \in NonLists : ~HasBasketItem(x) })
JsonMixedLists == JsonOf({ x \in MixedLists : ~HasBasketItem(x) })

\* every basket the input specification draws
InputBaskets ==
    MapLists \cup ItemLists \cup NonLists \cup MixedLists \cup NotJson
    \cup JsonMapLists \cup JsonNonLists \cup JsonMixedLists
    \cup { AsMaps(DefaultContent), AsItems(DefaultContent), AsJson(AsMaps(DefaultContent)) }

\* the baskets the callers of the stateful specification hold
Baskets ==
    { AsMaps(DefaultContent), AsJson(AsMaps(DefaultContent)), AsItems(DefaultContent),
      AsMaps(<< <<E, 1>> >>), TextV(<<WordTok("not"), WordTok("json")>>) }

\* the price changes of the tests: +10 and -2
Deltas == {IntV(10), IntV(-2)}

----------------------------------------------------------------------------
(* The pricing engine: a PricingInfo built once, price updates, pricing calls *)

\* the terminal shell before interactive_mode is entered
NotStarted == [pc |-> "start", input_json |-> NoneV, screen |-> <<>>]

TypeOK ==
    /\ updates \in 0..MaxUpdates
    /\ Len(results) <= MaxCalls

\* the caller takes up another basket
GiveBasket(b) ==
    /\ b # basket
    /\ basket' = b
    /\ UNCHANGED <<product_pricings, modifier, last, results, updates, shell>>

\* pricing.unit_price += delta
AdjustUnitPrice(code, delta) ==
    /\ updates < MaxUpdates
    /\ code \in DOMAIN product_pricings
    /\ LET sum == PyAdd(product_pricings[code].unit_price, delta) IN
       /\ ~IsRaise(sum)
       /\ product_pricings' = [product_pricings EXCEPT ![code].unit_price = sum]
    /\ updates' = updates + 1
    /\ UNCHANGED <<modifier, last, basket, results, shell>>

\* modifier.combo_price = modifier.combo_price + delta
AdjustComboPrice(code, delta) ==
    /\ updates < MaxUpdates
    /\ code \in DOMAIN product_pricings
    /\ product_pricings[code].price_modifier # NoneV
    /\ LET sum == PyAdd(product_pricings[code].price_modifier.combo_price, delta) IN
       /\ ~IsRaise(sum)
       /\ product_pricings' =
              [product_pricings EXCEPT ![code].price_modifier.combo_price = sum]
    /\ updates' = updates + 1
    /\ UNCHANGED <<modifier, last, basket, results, shell>>

\* calculate_total_cost answering from the prices the PricingInfo was built with
CalculateTotalCost_stale ==
    /\ Len(results) < MaxCalls
    /\ results' = Append(results,
                         [op |-> "calculate_total_cost", arg |-> basket,
                          pricings |-> product_pricings,
                          out |-> calculate_total_cost(PricingInfo(DefaultPricings), basket)])
    /\ UNCHANGED <<product_pricings, modifier, last, basket, updates, shell>>

\* calculate_total_cost normalising the caller's list in place
CalculateTotalCost_inplace ==
    /\ Len(results) < MaxCalls
    /\ results' = Append(results,
                         [op |-> "calculate_total_cost", arg |-> basket,
                          pricings |-> product_pricings,
                          out |-> calculate_total_cost(product_pricings, basket)])
    /\ basket' = IF IsRaise(LoadBasket(basket)) \/ IsRaise(NormaliseBasket(LoadBasket(basket)))
                 THEN basket
                 ELSE NormaliseBasket(LoadBasket(basket))
    /\ UNCHANGED <<product_pricings, modifier, last, updates, shell>>

\* pricing_info.calculate_total_cost(basket)
CalculateTotalCost ==
    /\ Len(results) < MaxCalls
    /\ results' = Append(results,
                         [op |-> "calculate_total_cost", arg |-> basket,
                          pricings |-> product_pricings,
                          out |-> calculate_total_cost(product_pricings, basket)])
    /\ UNCHANGED <<product_pricings, modifier, last, basket, updates, shell>>

\* the positions of the caller's basket, when it is a list
Positions == IF basket.t = "list" THEN 1..Len(basket.items) ELSE {}

\* pricing_info.calculate_item_cost(item) for the k-th item of the caller's basket
CalculateItemCost(k) ==
    /\ Len(results) < MaxCalls
    /\ IsBasketItem(basket.items[k])
    /\ results' = Append(results,
                         [op |-> "calculate_item_cost", arg |-> basket.items[k],
                          pricings |-> product_pricings,
                          out |-> calculate_item_cost(product_pricings, basket.items[k])])
    /\ UNCHANGED <<product_pricings, modifier, last, basket, updates, shell>>

Init ==
    /\ product_pricings = PricingInfo(DefaultPricings)
    /\ modifier = NoneV
    /\ last = NoneV
    /\ basket = AsMaps(DefaultContent)
    /\ results = <<>>
    /\ updates = 0
    /\ shell = NotStarted

Next ==
    \/ \E b \in Baskets : GiveBasket(b)
    \/ \E code \in {A, D}, delta \in Deltas : AdjustUnitPrice(code, delta)
    \/ \E delta \in Deltas : AdjustComboPrice(A, delta)
    \/ CalculateTotalCost

Spec == Init /\ [][Next]_vars

----------------------------------------------------------------------------
(* One pricing call on every drawn basket, under the default price list *)

InitInput ==
    /\ product_pricings = PricingInfo(DefaultPricings)
    /\ modifier = NoneV
    /\ last = NoneV
    /\ basket \in InputBaskets
    /\ results = <<>>
    /\ updates = 0
    /\ shell = NotStarted

\* the one call made on the drawn basket
FirstTotalCost == results = <<>> /\ CalculateTotalCost
FirstItemCost(k) == results = <<>> /\ CalculateItemCost(k)

NextInput ==
    \/ FirstTotalCost
    \/ \E k \in Positions : FirstItemCost(k)

SpecInput == InitInput /\ [][NextInput]_vars

----------------------------------------------------------------------------
(* A stand-alone ComboDealPriceModifier: construction, adjustment, calls *)

\* the values a caller passes as a price, a per-amount or a quantity
PriceValues ==
    { IntV(140), IntV(50), FloatV(22), StrV(<<"5">>), StrV(<<"bee">>), NoneV }
AmountValues ==
    { IntV(-5), IntV(0), IntV(1), IntV(2), IntV(3), BoolV(TRUE), BoolV(FALSE), FloatV(22),
      StrV(<<"flies">>), NoneV }
QuantityValues ==
    { IntV(q) : q \in -1..MaxQty }
    \cup { BoolV(TRUE), FloatV(22), StrV(<<"bee">>) }

\* modifier = ComboDealPriceModifier(combo_price, per_amount)
NewModifier(combo_price, per_amount) ==
    LET made == ComboDealPriceModifier(combo_price, per_amount) IN
    /\ modifier = NoneV
    /\ modifier' = IF IsRaise(made) THEN modifier ELSE made
    /\ last' = [op |-> "ComboDealPriceModifier", args |-> <<combo_price, per_amount>>,
                out |-> made]
    /\ UNCHANGED <<product_pricings, basket, results, updates, shell>>

\* modifier.combo_price = value
SetComboPrice(value) ==
    /\ modifier # NoneV
    /\ updates < MaxUpdates
    /\ modifier' = [modifier EXCEPT !.combo_price = value]
    /\ last' = [op |-> "combo_price", args |-> <<value>>, out |-> NoneV]
    /\ updates' = updates + 1
    /\ UNCHANGED <<product_pricings, basket, results, shell>>

\* modifier.per_amount = value
SetPerAmount(value) ==
    /\ modifier # NoneV
    /\ updates < MaxUpdates
    /\ modifier' = [modifier EXCEPT !.per_amount = value]
    /\ last' = [op |-> "per_amount", args |-> <<value>>, out |-> NoneV]
    /\ updates' = updates + 1
    /\ UNCHANGED <<product_pricings, basket, results, shell>>

\* modifier.modified_price(unit_price, quantity)
CallModifiedPrice(unit_price, quantity) ==
    /\ modifier # NoneV
    /\ last' = [op |-> "modified_price",
                args |-> <<unit_price, quantity>>,
                out |-> modified_price(modifier, unit_price, quantity)]
    /\ UNCHANGED <<product_pricings, modifier, basket, results, updates, shell>>

NextModifier ==
    \/ \E c \in PriceValues, p \in AmountValues : NewModifier(c, p)
    \/ \E v \in PriceValues : SetComboPrice(v)
    \/ \E v \in AmountValues : SetPerAmount(v)
    \/ \E u \in PriceValues, q \in QuantityValues : CallModifiedPrice(u, q)

SpecModifier == Init /\ [][NextModifier]_vars

----------------------------------------------------------------------------
(* The terminal shell in interactive mode (src/PyCheckout/terminal_checkout.py) *)

\* a block of text the shell prints: what it is and the value it shows
Printed(kind, what) == [t |-> "print", kind |-> kind, what |-> what]

\* format_causes(ex): the message of the exception, then its cause when it has one
format_causes(ex) == IF ex.cause = "none" THEN <<ex.msg>> ELSE <<ex.msg, ex.cause>>

\* try_input catching the parse error only
try_input_parse_only(pricings, input_json) ==
    LET total_cost == calculate_total_cost(pricings, input_json) IN
    IF ~IsRaise(total_cost) THEN Printed("total", total_cost)
    ELSE IF total_cost.type = "JSONDecodeError" THEN Printed("json_error", NoneV)
    ELSE total_cost

\* try_input(input_json): the block it prints, or the exception it lets through
try_input(pricings, input_json) ==
    LET total_cost == calculate_total_cost(pricings, input_json) IN
    IF ~IsRaise(total_cost) THEN Printed("total", total_cost)
    ELSE IF total_cost.type = "JSONDecodeError" THEN Printed("json_error", NoneV)
    ELSE IF total_cost.type \in {"ValueError", "AssertionError"}
    THEN Printed("invalid_input", format_causes(total_cost))
    ELSE total_cost

\* the maps a user types: priced, unknown or breaking the map-to-BasketItem rule
LineMaps ==
    { Map(A, IntV(1)), Map(A, IntV(3)), Map(A, IntV(4)), Map(C, IntV(1)), Map(E, IntV(1)),
      MapOnly("code", A),
      Map(A, FloatV(22)), Map(A, IntV(-1)), Map(A, BoolV(TRUE)) }

\* the lines a user types at the prompt: any text, JSON or not
Lines ==
    NotJson \cup JsonNonLists \cup JsonMixedLists
    \cup JsonOf({ ListV(s) : s \in SeqsUpTo(LineMaps, MaxLine) })
    \cup { AsJson(AsMaps(DefaultContent)) }

\* try_input under the shell's pricing_info, which nothing changes: tabulated by line
Answers == [text \in Lines |-> try_input(PricingInfo(DefaultPricings), text)]

\* interactive_mode() starts: the welcome text
EnterInteractiveMode ==
    /\ shell.pc = "start"
    /\ shell' = [shell EXCEPT !.pc = "loop", !.screen = <<Printed("welcome", NoneV)>>]
    /\ UNCHANGED <<product_pricings, modifier, last, basket, results, updates>>

\* print("===") and the prompt of input(...)
Prompt ==
    /\ shell.pc = "loop"
    /\ shell' = [shell EXCEPT !.pc = "input", !.screen = Append(@, Printed("prompt", NoneV))]
    /\ UNCHANGED <<product_pricings, modifier, last, basket, results, updates>>

\* input(...) returns the line the user typed
ReadLine(text) ==
    /\ shell.pc = "input"
    /\ shell' = [pc |-> "try_input", input_json |-> text, screen |-> <<>>]
    /\ UNCHANGED <<product_pricings, modifier, last, basket, results, updates>>

\* try_input(input_json); an exception it lets through ends interactive_mode
TryInput ==
    /\ shell.pc = "try_input"
    /\ LET printed == Answers[shell.input_json] IN
       shell' = IF IsRaise(printed)
                THEN [pc |-> "exited", input_json |-> NoneV,
                      screen |-> <<Printed("traceback", NoneV)>>]
                ELSE [pc |-> "loop", input_json |-> NoneV, screen |-> <<printed>>]
    /\ UNCHANGED <<product_pricings, modifier, last, basket, results, updates>>

NextShell ==
    \/ EnterInteractiveMode
    \/ Prompt
    \/ \E text \in Lines : ReadLine(text)
    \/ TryInput

\* the shell is one thread that runs on by itself; only input() waits for the user
ShellRuns == WF_vars(EnterInteractiveMode) /\ WF_vars(Prompt) /\ WF_vars(TryInput)

SpecShell == Init /\ [][NextShell]_vars /\ ShellRuns

----------------------------------------------------------------------------
(* The error kinds of the design, as the exceptions the code raises *)

IsValueError(e, msgs) == IsRaise(e) /\ e.type = "ValueError" /\ e.msg \in msgs

MalformedInput(e) == IsValueError(e, {"Invalid JSON"}) /\ e.cause = "JSONDecodeError"
InvalidBasketShape(e) ==
    IsValueError(e, {"Invalid Basket Format, basket must be a list",
                     "Invalid Basket Format, all elements of basket must be either a dict or a BasketItem"})
InvalidBasketItem(e) ==
    IsValueError(e, {"Invalid format for basket item", "Invalid Basket Item"})
    /\ e.cause = "AssertionError"
InvalidModifierConfig(e) ==
    IsValueError(e, {"combo_price must be castable to float", "per_amount must be an int > 0"})
UnknownProduct(e) ==
    IsValueError(e, {"Product does not have pricing data in PricingInfo"}) /\ e.cause = "KeyError"
InvalidQuantity(e) ==
    IsValueError(e, {"Quantity must be an int >= 0"}) /\ e.cause = "AssertionError"
InvalidPriceInput(e) ==
    IsValueError(e, {"unit_price must be castable to float"}) /\ e.cause = "ValueError"

\* a price is numeric when it is a number or a text that reads as one
Numeric(x) == IsNumber(x) \/ IsFloatLiteral(x)
\* a per-amount is valid when it is an integer above zero
PositiveInt(x) == x.t \in {"int", "bool"} /\ IntOf(x) > 0

----------------------------------------------------------------------------
(* Claims about the stand-alone modifier, checked under SpecModifier *)

\* C1: for a modifier with per_amount p > 0 and combo price c, every unit price u
\* and every non-negative integer quantity q, modified_price(u, q) is the number
\* (q // p) * c + (q % p) * u; with p = 3, c = 140, u = 50 that is 50 for q = 1,
\* 140 for q = 3 and 190 for q = 4.
C1_ComboFormula ==
    (last # NoneV /\ last.op = "modified_price"
     /\ PositiveInt(modifier.per_amount) /\ IsNumber(modifier.combo_price)
     /\ IsNumber(last.args[1])
     /\ last.args[2].t = "int" /\ last.args[2].i >= 0)
    => LET p == IntOf(modifier.per_amount)
           q == last.args[2].i
       IN /\ IsNumber(last.out)
          /\ Quarters(last.out) = (q \div p) * Quarters(modifier.combo_price)
                                  + (q % p) * Quarters(last.args[1])
          /\ (modifier = Modifier(IntV(140), IntV(3)) /\ last.args[1] = IntV(50))
             => /\ q = 1 => last.out = IntV(50)
                /\ q = 3 => last.out = IntV(140)
                /\ q = 4 => last.out = IntV(190)

C1_Witness ==
    /\ last # NoneV /\ last.op = "modified_price"
    /\ modifier = Modifier(IntV(140), IntV(3))
    /\ last.args = <<IntV(50), IntV(4)>>
    /\ last.out = IntV(190)

\* C9: constructing a ComboDealPriceModifier with a per_amount that is zero,
\* negative or not an integer, or with a combo_price that is not numeric, fails
\* with InvalidModifierConfig, and no modifier is created.
C9_BadConfigRejected ==
    (last # NoneV /\ last.op = "ComboDealPriceModifier"
     /\ (~PositiveInt(last.args[2]) \/ ~Numeric(last.args[1])))
    => (InvalidModifierConfig(last.out) /\ modifier = NoneV)

\* C10: in every reachable state of a modifier, after construction and after any
\* adjustment, per_amount is a strictly positive integer and combo_price is
\* numeric, and modified_price never divides by a per_amount of zero.
C10_ModifierInvariant ==
    /\ modifier # NoneV => (PositiveInt(modifier.per_amount) /\ Numeric(modifier.combo_price))
    /\ (last # NoneV /\ last.op = "modified_price")
       => ~(IsRaise(last.out) /\ last.out.type = "ZeroDivisionError")

\* a call-time quantity is valid when it is an integer that is not negative
ValidQuantity(x) == x.t \in {"int", "bool"} /\ IntOf(x) >= 0

\* C11: a modified_price call whose quantity is negative or not an integer fails
\* with InvalidQuantity, one whose unit_price is not numeric fails with
\* InvalidPriceInput, and neither returns a price.
C11_BadArgumentsRejected ==
    (last # NoneV /\ last.op = "modified_price"
     /\ (~Numeric(last.args[1]) \/ ~ValidQuantity(last.args[2])))
    => /\ InvalidQuantity(last.out) \/ InvalidPriceInput(last.out)
       /\ Numeric(last.args[1]) => InvalidQuantity(last.out)
       /\ ValidQuantity(last.args[2]) => InvalidPriceInput(last.out)

----------------------------------------------------------------------------
(* Claims about one pricing call on a drawn basket, checked under SpecInput *)

TotalCall(r) == r.op = "calculate_total_cost"
ItemCall(r) == r.op = "calculate_item_cost"
Calls == { results[k] : k \in 1..Len(results) }

\* C2: under the default price list the basket A x3, B x3, C x1, D x2 costs 284,
\* given as JSON text and given as the equivalent list of key/value maps.
C2_DefaultBasket284 ==
    \A r \in Calls :
        (TotalCall(r) /\ r.pricings = PricingInfo(DefaultPricings)
         /\ r.arg \in {AsJson(AsMaps(DefaultContent)), AsMaps(DefaultContent)})
        => r.out = IntV(284)

C2_Witness ==
    \E r \in Calls :
        TotalCall(r) /\ r.arg = AsJson(AsMaps(DefaultContent)) /\ r.out = IntV(284)

\* the baskets of (text code, non-negative integer quantity) pairs
GoodItemList(x) ==
    /\ x.t = "list"
    /\ \A k \in 1..Len(x.items) :
           /\ x.items[k].t = "BasketItem"
           /\ x.items[k].code.t = "str"
           /\ x.items[k].quantity.t = "int" /\ x.items[k].quantity.i >= 0
GoodMapList(x) ==
    /\ x.t = "list"
    /\ \A k \in 1..Len(x.items) :
           /\ x.items[k].t = "dict"
           /\ DOMAIN x.items[k].map = {"code", "quantity"}
           /\ x.items[k].map["code"].t = "str"
           /\ x.items[k].map["quantity"].t = "int" /\ x.items[k].map["quantity"].i >= 0
ItemsToMaps(x) ==
    ListV([k \in 1..Len(x.items) |-> Map(x.items[k].code, x.items[k].quantity)])
MapsToItems(x) ==
    ListV([k \in 1..Len(x.items) |->
              BasketItem(x.items[k].map["code"], x.items[k].map["quantity"])])

\* C3: for the same (code, quantity) content, calculate_total_cost has the same
\* outcome, a total or a failure, whether the basket is JSON text, a list of
\* key/value maps or a list of BasketItem.
C3_ShapesAgree ==
    \A r \in Calls :
        /\ (TotalCall(r) /\ GoodItemList(r.arg))
           => /\ calculate_total_cost(r.pricings, ItemsToMaps(r.arg)) = r.out
              /\ calculate_total_cost(r.pricings, AsJson(ItemsToMaps(r.arg))) = r.out
        /\ (TotalCall(r) /\ GoodMapList(r.arg))
           => /\ calculate_total_cost(r.pricings, MapsToItems(r.arg)) = r.out
              /\ calculate_total_cost(r.pricings, AsJson(r.arg)) = r.out

C3_Witness ==
    \E r \in Calls :
        /\ TotalCall(r)
        /\ r.arg = AsItems(<< <<A, 4>>, <<C, 1>> >>)
        /\ r.out = IntV(215)
        /\ calculate_total_cost(r.pricings, AsJson(ItemsToMaps(r.arg))) = IntV(215)

\* C4: calculate_item_cost raises UnknownProduct exactly when the item's code is
\* no key of the pricing table.
C4_UnknownProductIff ==
    \A r \in Calls :
        ItemCall(r) => (UnknownProduct(r.out) <=> r.arg.code \notin DOMAIN r.pricings)

C4_Witness ==
    \E r \in Calls : ItemCall(r) /\ r.arg.code = E /\ UnknownProduct(r.out)

BadMapLists == { x \in MapLists : \E k \in 1..Len(x.items) : x.items[k] \in BadMaps }
JsonBadMapLists == JsonOf(BadMapLists)

\* C5: text that is not JSON fails with MalformedInput caused by the parse error;
\* a given or parsed value that is no list fails with InvalidBasketShape; a list
\* that is neither all BasketItem nor all maps fails with InvalidBasketShape; a
\* list of maps with a map lacking code or quantity, or with a non-text code, a
\* non-integer quantity or a negative quantity fails with InvalidBasketItem.
C5_InvalidInputClassified ==
    \A r \in Calls :
        TotalCall(r) =>
            /\ r.arg \in NotJson => MalformedInput(r.out)
            /\ (r.arg \in NonLists \/ r.arg \in JsonNonLists)
               => (InvalidBasketShape(r.out) /\ r.out.msg = "Invalid Basket Format, basket must be a list")
            /\ (r.arg \in MixedLists \/ r.arg \in JsonMixedLists) => InvalidBasketShape(r.out)
            /\ (r.arg \in BadMapLists \/ r.arg \in JsonBadMapLists) => InvalidBasketItem(r.out)

C5_Witness ==
    \E r \in Calls :
        /\ TotalCall(r)
        /\ r.arg = AsJson(ListV(<<Map(E, IntV(1)), Map(A, FloatV(22))>>))
        /\ InvalidBasketItem(r.out)

BoolMapLists == { x \in MapLists : \E k \in 1..Len(x.items) : x.items[k] \in BoolMaps }
JsonBoolMapLists == JsonOf(BoolMapLists)

\* C6: a key/value map whose quantity is a boolean is never converted into a
\* BasketItem: a basket holding one fails with InvalidBasketItem and no total.
C6_BooleanQuantityRejected ==
    \A r \in Calls :
        (TotalCall(r) /\ (r.arg \in BoolMapLists \/ r.arg \in JsonBoolMapLists))
        => InvalidBasketItem(r.out)

\* the list of BasketItem a call's argument normalises to (empty when it has none)
ItemsOf(r) ==
    LET loaded == LoadBasket(r.arg) IN
    IF IsRaise(loaded) THEN <<>>
    ELSE LET items == NormaliseBasket(loaded) IN
         IF IsRaise(items) THEN <<>> ELSE items.items

\* the positions of a call's basket whose item cannot be costed
FailingItems(r) ==
    { k \in 1..Len(ItemsOf(r)) : IsRaise(calculate_item_cost(r.pricings, ItemsOf(r)[k])) }

\* C12: when costing any item of the basket fails, for an unknown product or in
\* the modifier's validation, calculate_total_cost fails and returns no total,
\* and the exception it raises names a basket item that failed.
C12_BadItemFailsCall ==
    \A r \in Calls :
        (TotalCall(r) /\ FailingItems(r) # {})
        => /\ IsRaise(r.out)
           /\ \E k \in FailingItems(r) : r.out.arg = ItemsOf(r)[k].code

\* C14: for a list of key/value maps, given or written as JSON, in which any map
\* breaks the map-to-BasketItem rule, calculate_total_cost fails with
\* InvalidBasketItem and looks up no price, even when an earlier map names a
\* product the pricing table lacks; UnknownProduct is raised only for a list
\* whose every map is well-formed.
C14_NormaliseBeforeCosting ==
    \A r \in Calls :
        TotalCall(r) =>
            /\ (r.arg \in BadMapLists \/ r.arg \in JsonBadMapLists)
               => /\ InvalidBasketItem(r.out)
                  /\ PricingLookups(r.pricings, r.arg) = <<>>
            /\ ((r.arg \in MapLists \/ r.arg \in JsonMapLists) /\ UnknownProduct(r.out))
               => /\ r.arg \notin BadMapLists /\ r.arg \notin JsonBadMapLists
                  /\ PricingLookups(r.pricings, r.arg) # <<>>

C14_Witness ==
    \E r \in Calls :
        /\ TotalCall(r)
        /\ r.arg = ListV(<<Map(E, IntV(1)), Map(A, IntV(-1))>>)
        /\ InvalidBasketItem(r.out)
        /\ PricingLookups(r.pricings, r.arg) = <<>>
        /\ UnknownProduct(calculate_item_cost(r.pricings, BasketItem(E, IntV(1))))

\* C15: calculate_total_cost returns a total only when every item it costed has
\* a quantity that is a non-negative integer, for every input shape and for
\* products with and without a price modifier.
C15_TotalOnlyForValidQuantities ==
    \A r \in Calls :
        (TotalCall(r) /\ ~IsRaise(r.out))
        => \A k \in 1..Len(ItemsOf(r)) : ValidQuantity(ItemsOf(r)[k].quantity)

\* a valid basket: in any of the three shapes, text codes the table prices with
\* non-negative integer quantities
ValidBasket(r) ==
    /\ \/ GoodItemList(r.arg)
       \/ GoodMapList(r.arg)
       \/ (r.arg.t = "str" /\ ~IsRaise(json_loads(r.arg)) /\ GoodMapList(json_loads(r.arg)))
    /\ \A k \in 1..Len(ItemsOf(r)) : ItemsOf(r)[k].code \in DOMAIN r.pricings

\* the costs of the items taken one by one, added up
RECURSIVE ItemCostSum(_, _)
ItemCostSum(pricings, items) ==
    IF items = <<>> THEN 0
    ELSE calculate_item_cost(pricings, Head(items)).i + ItemCostSum(pricings, Tail(items))

\* the orders in which n items can be arranged
Orders(n) == { p \in [1..n -> 1..n] : \A i, j \in 1..n : p[i] = p[j] => i = j }

\* C16: for a fixed pricing table and a valid basket, calculate_total_cost is the
\* sum of calculate_item_cost over the items one by one: 0 for the empty basket,
\* the same for every order of the items, the sum of the totals of the two parts
\* of a basket cut anywhere, and with items of the same product code costed
\* apiece (A x2 then A x1 costs 150, not the 140 of A x3).
C16_TotalIsSumOfItemCosts ==
    \A r \in Calls :
        (TotalCall(r) /\ ValidBasket(r))
        => LET items == ItemsOf(r)
               n == Len(items)
               total(xs) == calculate_total_cost(r.pricings, ListV(xs))
           IN /\ r.out = IntV(ItemCostSum(r.pricings, items))
              /\ n = 0 => r.out = IntV(0)
              /\ \A p \in Orders(n) : total([k \in 1..n |-> items[p[k]]]) = r.out
              /\ \A j \in 0..n :
                     PyAdd(total(SubSeq(items, 1, j)), total(SubSeq(items, j + 1, n))) = r.out
              /\ r.arg = AsItems(<< <<A, 2>>, <<A, 1>> >>)
                 => (r.out = IntV(150) /\ total(AsItems(<< <<A, 3>> >>).items) = IntV(140))

C16_Witness ==
    \E r \in Calls :
        /\ TotalCall(r)
        /\ r.arg = AsMaps(<< <<A, 2>>, <<A, 1>> >>)
        /\ ValidBasket(r)
        /\ r.out = IntV(150)
        /\ calculate_total_cost(r.pricings, AsMaps(<< <<A, 1>>, <<A, 2>> >>)) = IntV(150)

----------------------------------------------------------------------------
(* Claims about calls interleaved with price updates, checked under Spec *)

DefaultShapes ==
    { AsMaps(DefaultContent), AsJson(AsMaps(DefaultContent)), AsItems(DefaultContent) }

\* the default basket priced by hand from a table's prices: A x3 is one 3-for
\* deal, B x3 one 2-for deal and one unit, C one unit, D two units
ByHand(pricings) ==
    pricings[A].price_modifier.combo_price.i
    + pricings[B].price_modifier.combo_price.i + pricings[B].unit_price.i
    + pricings[C].unit_price.i
    + 2 * pricings[D].unit_price.i

WithComboPrice(pricings, code, price) ==
    [pricings EXCEPT ![code].price_modifier.combo_price = price]
WithUnitPrice(pricings, code, price) == [pricings EXCEPT ![code].unit_price = price]

C7_AtCallTime ==
    \A r \in Calls :
        (TotalCall(r) /\ r.arg \in DefaultShapes)
        => /\ r.out = IntV(ByHand(r.pricings))
           /\ r.pricings = WithComboPrice(PricingInfo(DefaultPricings), A, IntV(150))
              => r.out = IntV(294)
           /\ r.pricings = WithUnitPrice(PricingInfo(DefaultPricings), D, IntV(10))
              => r.out = IntV(280)

C7_ReturnedStays ==
    \A k \in 1..Len(results) : Len(results') >= k /\ results'[k] = results[k]

\* C7: across calculate_total_cost calls interleaved with updates of a unit_price
\* or a combo_price, every result is computed from the prices in force at its
\* call (294 after raising A's combo price by 10, 280 after lowering D's unit
\* price by 2), and no later update changes a result already returned.
C7_ResultsFollowPrices == [](C7_AtCallTime) /\ [][C7_ReturnedStays]_vars

C7_Witness ==
    /\ Len(results) = 2
    /\ results[1].arg \in DefaultShapes /\ results[2].arg \in DefaultShapes
    /\ results[1].out = IntV(284)
    /\ results[2].out = IntV(294)
    /\ results[2].pricings # results[1].pricings

C8_SameAgain ==
    \A r1, r2 \in Calls :
        (r1.op = r2.op /\ r1.arg = r2.arg /\ r1.pricings = r2.pricings) => r1.out = r2.out

C8_CallChangesNothing ==
    results' # results
    => /\ product_pricings' = product_pricings
       /\ basket' = basket
       /\ calculate_total_cost(product_pricings', basket') = results'[Len(results')].out

\* C8: calculate_total_cost called twice with the same basket and an unchanged
\* pricing table yields the same result, and a call, successful or failing,
\* changes neither the pricing table and what it references nor the caller's basket.
C8_Idempotent == [](C8_SameAgain) /\ [][C8_CallChangesNothing]_vars

C8_Witness ==
    /\ Len(results) = 2
    /\ results[1].arg = results[2].arg
    /\ results[1].pricings = results[2].pricings
    /\ results[1].out = results[2].out
    /\ results[2].arg = AsMaps(DefaultContent)
    /\ basket = AsMaps(DefaultContent)
    /\ product_pricings = results[2].pricings

----------------------------------------------------------------------------
(* Claims about the interactive shell, checked under SpecShell *)

\* what try_input prints for a total or for a failure it reports
ResultBlock(x) == x.kind \in {"total", "json_error", "invalid_input"}

C13_Answered ==
    shell.pc = "try_input"
    => /\ shell'.pc = "loop"
       /\ Len(shell'.screen) = 1 /\ ResultBlock(shell'.screen[1])
       /\ shell'.screen[1].kind = "total"
          <=> ~IsRaise(calculate_total_cost(product_pricings, shell.input_json))

\* C13: in interactive mode every input line, whether it yields a total or an
\* engine failure, is answered by a printed total or error block and the loop
\* goes on: a prompt eventually follows each input.
C13_PromptFollowsInput ==
    /\ [][C13_Answered]_vars
    /\ (shell.pc = "try_input") ~> (shell.pc = "input")

C13_Witness ==
    /\ shell.pc = "input"
    /\ shell.screen = << Printed("invalid_input",
                                 <<"Product does not have pricing data in PricingInfo", "KeyError">>),
                         Printed("prompt", NoneV) >>

=============================================================================
